---- MODULE Spec2Model ----
(***************************************************************************)
(* Model of package httpClient (src/http.go): an outbound HTTP call        *)
(* wrapper, Do, that records one latency and one request-count measurement *)
(* per call through OpenCensus, tagged by method, API name, status code,   *)
(* status class and version.                                               *)
(*                                                                         *)
(* The OpenCensus calls the package makes (view.Register, tag.Insert,      *)
(* tag.New, stats.RecordWithTags) and net/http's Client.Do are modelled at *)
(* their call sites by their documented behaviour:                         *)
(*   - view.Register fails when a different view of the same name exists,  *)
(*     and is a no-op for an identical one;                                *)
(*   - tag.Insert rejects a value that is longer than 255 bytes or holds a *)
(*     byte outside printable ASCII, and does not replace a key the tag    *)
(*     map of the context already carries;                                 *)
(*   - stats.RecordWithTags returns only the error of applying the         *)
(*     mutators; it does not consult the context's cancellation, and it    *)
(*     drops the measurements of a measure no registered view uses.        *)
(***************************************************************************)
EXTENDS Integers, Sequences, FiniteSets, TLC

\* ------------------------------------------------------------------ bounds
\* Goroutines that may be inside Do at the same time (SpecConc).
NumProcs == 2
\* Calls of Do the single caller of Spec makes one after the other.
MaxCalls == 2
\* SpecClassify explores the status codes -CodeSlack .. 599 + CodeSlack.
CodeSlack == 60

Procs == 1 .. NumProcs

\* The nil error / the nil *http.Response.
Nil == "<nil>"
NilResponse == [isNil |-> TRUE, StatusCode |-> 0]
Response(c) == [isNil |-> FALSE, StatusCode |-> c]

\* ------------------------------------------------- package-level variables
outboundHTTPLatency == [name |-> "http_outbound_latency", unit |-> "ms"]
outboundHTTPRequests == [name |-> "http_outbound_count", unit |-> "1"]
MethodTag == "http_method"
StatusTag == "http_status_code"
StatusClassTag == "http_status_class"
APINameTag == "api_name"
VersionTag == "version_name"

\* The tag keys init passes to both registrations, in its order.
InitTagKeys == <<MethodTag, APINameTag, StatusTag, StatusClassTag, VersionTag>>

\* ------------------------------------------------------------ conversions
Digit == <<"0", "1", "2", "3", "4", "5", "6", "7", "8", "9">>

\* strconv.Itoa: the decimal string of an int.
RECURSIVE Itoa(_)
Itoa(n) ==
    IF n < 0 THEN "-" \o Itoa(-n)
    ELSE IF n < 10 THEN Digit[n + 1]
    ELSE Itoa(n \div 10) \o Digit[(n % 10) + 1]

\* time.Duration.Milliseconds: whole milliseconds of a duration in ns.
Milliseconds(d) == d \div 1000000

\* ------------------------------------------------------------- tag values
\* The model's strings that hold a byte outside printable ASCII (a tab).
NonPrintable == {"bad\tname"}

\* tag.checkValue: at most 255 bytes, each printable ASCII.
checkValue(v) == Len(v) <= 255 /\ v \notin NonPrintable

\* tag.Insert(k, v) as a mutator value.
Insert(k, v) == [key |-> k, value |-> v]

\* A tag map is a set of <<key, value>> pairs with one pair per key.
HasKey(m, k) == \E kv \in m : kv[1] = k

\* Applying one Insert mutator: an existing key keeps its value.
Mutate(m, mu) == IF HasKey(m, mu.key) THEN m ELSE m \cup {<<mu.key, mu.value>>}

RECURSIVE ApplyMutators(_, _)
ApplyMutators(m, mus) ==
    IF mus = <<>> THEN m ELSE ApplyMutators(Mutate(m, Head(mus)), Tail(mus))

\* tag.New(ctx, mutators...): the context's tag map with the mutators applied
\* in order, or the error of the first mutator whose value is rejected.
TagNew(ctx, mus) ==
    IF \E i \in 1 .. Len(mus) : ~checkValue(mus[i].value)
    THEN [err |-> "invalid value", tags |-> ctx.tags]
    ELSE [err |-> Nil, tags |-> ApplyMutators(ctx.tags, mus)]

\* ------------------------------------------------------------------ views
LatencyView ==
    [Name |-> outboundHTTPLatency.name, Measure |-> outboundHTTPLatency.name,
     TagKeys |-> InitTagKeys,
     Aggregation |-> <<"Distribution", <<0, 100, 200, 400, 1000, 2000, 4000>>>>]

CounterView ==
    [Name |-> outboundHTTPRequests.name, Measure |-> outboundHTTPRequests.name,
     TagKeys |-> InitTagKeys, Aggregation |-> <<"Count", <<>>>>]

\* Views another package of the process may have registered under the same
\* names before this package's init runs.
ForeignViews ==
    {[Name |-> outboundHTTPLatency.name, Measure |-> "foreign_latency",
      TagKeys |-> <<>>, Aggregation |-> <<"Count", <<>>>>],
     [Name |-> outboundHTTPRequests.name, Measure |-> "foreign_count",
      TagKeys |-> <<>>, Aggregation |-> <<"Count", <<>>>>]}

\* view.Register(v) on the set of registered views: error and new set.
Register(reg, v) ==
    IF \E w \in reg : w.Name = v.Name /\ w # v
    THEN [err |-> "a different view with the same name is already registered",
          reg |-> reg]
    ELSE [err |-> Nil, reg |-> reg \cup {v}]

\* registerLatencyMetric / registerCounterMetric: build the view, register
\* it, and return view.Register's error.
registerLatencyMetric(reg) == Register(reg, LatencyView)
registerCounterMetric(reg) == Register(reg, CounterView)

\* A measure is recorded only if some registered view aggregates it.
Subscribed(reg, measure) == \E v \in reg : v.Measure = measure

\* ------------------------------------------------------ recordHTTPMetrics
\* Faulty variant of StatusCodeOf: no fallback code for a missing response.
StatusCodeOfZero(resp) == IF ~resp.isNil THEN resp.StatusCode ELSE 0

\* The status code recordHTTPMetrics tags with: the response's, or 500 when
\* there is no response.
StatusCodeOf(resp) == IF ~resp.isNil THEN resp.StatusCode ELSE 500

\* Faulty variant of StatusClass: the first comparison is strict.
StatusClassStrict(code) ==
    IF code > 100 /\ code <= 199 THEN "1xx"
    ELSE IF code >= 200 /\ code <= 299 THEN "2xx"
    ELSE IF code >= 300 /\ code <= 399 THEN "3xx"
    ELSE IF code >= 400 /\ code <= 499 THEN "4xx"
    ELSE IF code >= 500 /\ code <= 599 THEN "5xx"
    ELSE "UNKNOWN"

\* The status class of a code, by the if / else-if chain.
StatusClass(code) ==
    IF code >= 100 /\ code <= 199 THEN "1xx"
    ELSE IF code >= 200 /\ code <= 299 THEN "2xx"
    ELSE IF code >= 300 /\ code <= 399 THEN "3xx"
    ELSE IF code >= 400 /\ code <= 499 THEN "4xx"
    ELSE IF code >= 500 /\ code <= 599 THEN "5xx"
    ELSE "UNKNOWN"

\* Faulty variant of Mutators: apiName and versionName change places.
MutatorsSwapped(method, apiName, versionName, code) ==
    <<Insert(MethodTag, method),
      Insert(APINameTag, versionName),
      Insert(StatusTag, Itoa(code)),
      Insert(StatusClassTag, StatusClass(code)),
      Insert(VersionTag, apiName)>>

\* The []tag.Mutator literal passed to stats.RecordWithTags.
Mutators(method, apiName, versionName, code) ==
    <<Insert(MethodTag, method),
      Insert(APINameTag, apiName),
      Insert(StatusTag, Itoa(code)),
      Insert(StatusClassTag, StatusClass(code)),
      Insert(VersionTag, versionName)>>

\* Faulty variant of Measurements: the count measurement is left out.
MeasurementsLatencyOnly(latency) ==
    <<[measure |-> outboundHTTPLatency.name, v |-> Milliseconds(latency)]>>

\* The two measurements passed to stats.RecordWithTags.
Measurements(latency) ==
    <<[measure |-> outboundHTTPLatency.name, v |-> Milliseconds(latency)],
      [measure |-> outboundHTTPRequests.name, v |-> 1]>>

\* The rows the registered views receive for measurements ms tagged by tags:
\* one per measurement whose measure a registered view aggregates, carrying
\* the tags of the view's keys.
ViewRows(reg, tags, ms) ==
    LET kept == SelectSeq(ms, LAMBDA m : Subscribed(reg, m.measure))
        viewOf(m) == CHOOSE v \in reg : v.Measure = m.measure
        keysOf(v) == {v.TagKeys[i] : i \in 1 .. Len(v.TagKeys)}
    IN  [i \in 1 .. Len(kept) |->
            [view |-> viewOf(kept[i]).Name,
             tags |-> {kv \in tags : kv[1] \in keysOf(viewOf(kept[i]))},
             value |-> kept[i].v]]

\* stats.RecordWithTags(ctx, mutators, ms...): the possible results, each an
\* error and the rows recorded.  Nothing is recorded when no measure is
\* subscribed or a tag value is rejected.  With no measure subscribed and a
\* rejected tag value, the library returns nil or the tag error depending on
\* its version (whether it applies the mutators before or after it looks for
\* a subscribed measure).  The context's cancellation is not consulted.
RecordWithTags(reg, ctx, mus, ms) ==
    LET any == \E i \in 1 .. Len(ms) : Subscribed(reg, ms[i].measure)
        t == TagNew(ctx, mus)
    IN  IF ~any
        THEN {[err |-> e, rows |-> <<>>] : e \in {Nil, t.err}}
        ELSE IF t.err # Nil
        THEN {[err |-> t.err, rows |-> <<>>]}
        ELSE {[err |-> Nil, rows |-> ViewRows(reg, t.tags, ms)]}

\* Faulty variant of recordHTTPMetrics: it returns the context's error,
\* without recording, when the context is cancelled.
recordHTTPMetricsCtx(reg, ctx, method, apiName, versionName, latency, resp) ==
    LET code == StatusCodeOf(resp)
        mus == Mutators(method, apiName, versionName, code)
        ms == Measurements(latency)
    IN  IF ctx.cancelled
        THEN {[err |-> "context canceled", calls |-> <<>>, rows |-> <<>>]}
        ELSE {[err |-> o.err,
               calls |-> <<[ctx |-> ctx, mutators |-> mus, measurements |-> ms]>>,
               rows |-> o.rows] : o \in RecordWithTags(reg, ctx, mus, ms)}

\* Faulty variant of recordHTTPMetrics: it returns an error of its own when
\* the views are not registered.
recordHTTPMetricsViews(reg, ctx, method, apiName, versionName, latency, resp) ==
    LET code == StatusCodeOf(resp)
        mus == Mutators(method, apiName, versionName, code)
        ms == Measurements(latency)
    IN  IF LatencyView \notin reg \/ CounterView \notin reg
        THEN {[err |-> "view not registered", calls |-> <<>>, rows |-> <<>>]}
        ELSE {[err |-> o.err,
               calls |-> <<[ctx |-> ctx, mutators |-> mus, measurements |-> ms]>>,
               rows |-> o.rows] : o \in RecordWithTags(reg, ctx, mus, ms)}

\* recordHTTPMetrics(ctx, method, apiName, versionName, latency, resp): the
\* possible results, each the error returned, the calls made to
\* stats.RecordWithTags (one) and the rows they recorded.
recordHTTPMetrics(reg, ctx, method, apiName, versionName, latency, resp) ==
    LET code == StatusCodeOf(resp)
        mus == Mutators(method, apiName, versionName, code)
        ms == Measurements(latency)
    IN  {[err |-> o.err,
          calls |-> <<[ctx |-> ctx, mutators |-> mus, measurements |-> ms]>>,
          rows |-> o.rows] : o \in RecordWithTags(reg, ctx, mus, ms)}

\* Faulty variant of DoReturn: a recording error hides the response.
DoReturnHidesResponse(response, httpError, metricError) ==
    [response |-> IF metricError # Nil THEN NilResponse ELSE response,
     httpError |-> httpError, metricError |-> metricError]

\* What Do returns: the transport's response and error and the error of
\* recordHTTPMetrics.
DoReturn(response, httpError, metricError) ==
    [response |-> response, httpError |-> httpError, metricError |-> metricError]

\* ------------------------------------------------------------------ state
VARIABLES
    registry,    \* the views registered with OpenCensus (process-wide)
    initPC,      \* position of the package's init function
    regCalls,    \* calls made to each register function
    regErrs,     \* the error each register function returned to init
    frame,       \* per goroutine: position in Do, its arguments and locals
    wire,        \* per goroutine: what client.Do produced (response, error)
    returned,    \* per goroutine: the results of its calls that returned
    submitted,   \* per goroutine: its current call's stats.RecordWithTags calls
    recorded,    \* per goroutine: the rows its current call added to the views
    telemetry,   \* process-wide totals of measurements submitted and rows
    nStarted,    \* calls of Do started
    nCompleted   \* calls of Do returned

vars == <<registry, initPC, regCalls, regErrs, frame, wire, returned,
          submitted, recorded, telemetry, nStarted, nCompleted>>

initVars == <<registry, initPC, regCalls, regErrs>>
callVars == <<frame, wire, returned, submitted, recorded, telemetry, nStarted,
              nCompleted>>

NoCtx == [cancelled |-> FALSE, tags |-> {}]

IdleFrame ==
    [pc |-> "idle",
     req |-> [Method |-> "", ctx |-> NoCtx],
     apiName |-> "", versionName |-> "", timeout |-> 0,
     response |-> NilResponse, httpError |-> Nil, timeTaken |-> 0,
     metricError |-> Nil]

NoWire == [response |-> NilResponse, err |-> Nil]

\* The state when the package's init function is about to run: other
\* packages may already have registered views under the same names.
Init ==
    /\ registry \in SUBSET ForeignViews
    /\ initPC = "registerLatency"
    /\ regCalls = [latency |-> 0, counter |-> 0]
    /\ regErrs = [latency |-> Nil, counter |-> Nil]
    /\ frame = [p \in Procs |-> IdleFrame]
    /\ wire = [p \in Procs |-> NoWire]
    /\ returned = [p \in Procs |-> <<>>]
    /\ submitted = [p \in Procs |-> <<>>]
    /\ recorded = [p \in Procs |-> <<>>]
    /\ telemetry = [latencySubmitted |-> 0, countSubmitted |-> 0,
                    latencyRows |-> 0, countRows |-> 0]
    /\ nStarted = 0
    /\ nCompleted = 0

\* ------------------------------------------------------------------- init
\* init, first statement: registerLatencyMetric(...), its error discarded.
InitRegisterLatency ==
    /\ initPC = "registerLatency"
    /\ LET r == registerLatencyMetric(registry)
       IN  /\ registry' = r.reg
           /\ regErrs' = [regErrs EXCEPT !.latency = r.err]
    /\ regCalls' = [regCalls EXCEPT !.latency = @ + 1]
    /\ initPC' = "registerCounter"
    /\ UNCHANGED callVars

\* init, second statement: registerCounterMetric(...), its error discarded.
InitRegisterCounter ==
    /\ initPC = "registerCounter"
    /\ LET r == registerCounterMetric(registry)
       IN  /\ registry' = r.reg
           /\ regErrs' = [regErrs EXCEPT !.counter = r.err]
    /\ regCalls' = [regCalls EXCEPT !.counter = @ + 1]
    /\ initPC' = "done"
    /\ UNCHANGED callVars

\* Faulty variant of InitDone: Do callable while init is still running.
InitDoneAlways == TRUE

\* Go runs a package's init to completion before any of its functions can
\* be called.
InitDone == initPC = "done"

\* --------------------------------------------------------------------- Do
\* The tag maps a request's context may carry when Do is called.
CtxTagMaps == {{}, {<<APINameTag, "inherited">>}}

\* Durations in nanoseconds: the elapsed times and timeouts explored.
ElapsedTimes == {1999999, 1000000000}
Timeouts == {0, 1000000000}

\* The arguments the single caller of Spec draws from.
SeqInputs ==
    [Method : {"GET", "POST"}, tags : CtxTagMaps,
     apiName : {"search", "bad\tname"}, versionName : {"v3"},
     timeout : Timeouts]
SeqCodes == {200, 404, 600}

\* The arguments of goroutine p in SpecConc: every goroutine calls a
\* different API with a different version.
ConcInputs(p) ==
    {[Method |-> IF p % 2 = 1 THEN "GET" ELSE "POST", tags |-> {},
      apiName |-> "api" \o Itoa(p), versionName |-> "rev" \o Itoa(p),
      timeout |-> 0]}
ConcCodes(p) == {200 + p}

\* Do is entered with its arguments; start := time.Now(); the client is
\* built with the timeout.
Call(p, inputs) ==
    /\ InitDone
    /\ \E in \in inputs :
          frame' = [frame EXCEPT ![p] =
              [IdleFrame EXCEPT
                  !.pc = "client",
                  !.req = [Method |-> in.Method,
                           ctx |-> [cancelled |-> FALSE, tags |-> in.tags]],
                  !.apiName = in.apiName,
                  !.versionName = in.versionName,
                  !.timeout = in.timeout]]
    /\ wire' = [wire EXCEPT ![p] = NoWire]
    /\ returned' = [returned EXCEPT ![p] = <<>>]
    /\ submitted' = [submitted EXCEPT ![p] = <<>>]
    /\ recorded' = [recorded EXCEPT ![p] = <<>>]
    /\ nStarted' = nStarted + 1
    /\ UNCHANGED <<initVars, telemetry, nCompleted>>

\* The owner of the request's context cancels it while Do is running.
Cancel(p) ==
    /\ frame[p].pc \in {"client", "record"}
    /\ ~frame[p].req.ctx.cancelled
    /\ frame' = [frame EXCEPT ![p].req.ctx.cancelled = TRUE]
    /\ UNCHANGED <<initVars, wire, returned, submitted, recorded, telemetry,
                   nStarted, nCompleted>>

\* The results client.Do can produce, with the time it took.  A cancelled
\* context or a transport failure gives no response; a redirect chain cut
\* by the default policy gives the last response together with an error; a
\* positive timeout bounds the time of every other result.
ClientOutcomes(ctx, timeout, codes) ==
    LET within == {e \in ElapsedTimes : timeout <= 0 \/ e < timeout}
        late == {e \in ElapsedTimes : timeout > 0 /\ e >= timeout}
        out(r, e, t) == [response |-> r, err |-> e, timeTaken |-> t]
    IN  IF ctx.cancelled
        THEN {out(NilResponse, "context canceled", t) : t \in within}
        ELSE {out(Response(c), Nil, t) : c \in codes, t \in within}
             \cup {out(NilResponse, "connection refused", t) : t \in within}
             \cup {out(Response(302), "stopped after 10 redirects", t) : t \in within}
             \cup {out(NilResponse, "Client.Timeout exceeded", t) : t \in late}

\* response, httpError = client.Do(req); timeTaken := time.Since(start).
ClientDo(p, codes) ==
    /\ frame[p].pc = "client"
    /\ \E o \in ClientOutcomes(frame[p].req.ctx, frame[p].timeout, codes) :
          /\ frame' = [frame EXCEPT ![p].pc = "record",
                                    ![p].response = o.response,
                                    ![p].httpError = o.err,
                                    ![p].timeTaken = o.timeTaken]
          /\ wire' = [wire EXCEPT ![p] = [response |-> o.response, err |-> o.err]]
    /\ UNCHANGED <<initVars, returned, submitted, recorded, telemetry,
                   nStarted, nCompleted>>

\* Faulty variant of RecordArgs: the API name and version are read from one
\* place shared by all goroutines (those of the first goroutine inside Do).
RecordArgsShared(p) ==
    LET q == CHOOSE r \in Procs :
                /\ frame[r].pc # "idle"
                /\ \A t \in Procs : frame[t].pc # "idle" => r <= t
    IN  [ctx |-> frame[p].req.ctx, method |-> frame[p].req.Method,
         apiName |-> frame[q].apiName, versionName |-> frame[q].versionName,
         latency |-> frame[p].timeTaken, resp |-> frame[p].response]

\* The arguments Do passes to recordHTTPMetrics.
RecordArgs(p) ==
    [ctx |-> frame[p].req.ctx, method |-> frame[p].req.Method,
     apiName |-> frame[p].apiName, versionName |-> frame[p].versionName,
     latency |-> frame[p].timeTaken, resp |-> frame[p].response]

\* How many measurements of measure m the calls cs pass.
CountOf(cs, m) ==
    Cardinality({<<i, j>> \in (1 .. Len(cs)) \X (1 .. 2) :
                    j <= Len(cs[i].measurements)
                    /\ cs[i].measurements[j].measure = m})

\* How many of the rows rs went to view n.
RowsOf(rs, n) == Cardinality({i \in 1 .. Len(rs) : rs[i].view = n})

\* metricError = recordHTTPMetrics(req.Context(), req.Method, apiName,
\* versionName, timeTaken, response), with its effect on the views.
Record(p) ==
    /\ frame[p].pc = "record"
    /\ LET a == RecordArgs(p)
       IN  \E r \in recordHTTPMetrics(registry, a.ctx, a.method, a.apiName,
                                     a.versionName, a.latency, a.resp) :
              /\ frame' = [frame EXCEPT ![p].pc = "return",
                                        ![p].metricError = r.err]
              /\ submitted' = [submitted EXCEPT ![p] = @ \o r.calls]
              /\ recorded' = [recorded EXCEPT ![p] = @ \o r.rows]
              /\ telemetry' =
                    [latencySubmitted |-> telemetry.latencySubmitted
                        + CountOf(r.calls, outboundHTTPLatency.name),
                     countSubmitted |-> telemetry.countSubmitted
                        + CountOf(r.calls, outboundHTTPRequests.name),
                     latencyRows |-> telemetry.latencyRows
                        + RowsOf(r.rows, LatencyView.Name),
                     countRows |-> telemetry.countRows
                        + RowsOf(r.rows, CounterView.Name)]
    /\ UNCHANGED <<initVars, wire, returned, nStarted, nCompleted>>

\* return response, httpError, metricError.
Return(p) ==
    /\ frame[p].pc = "return"
    /\ frame' = [frame EXCEPT ![p].pc = "done"]
    /\ returned' = [returned EXCEPT ![p] =
          Append(@, DoReturn(frame[p].response, frame[p].httpError,
                             frame[p].metricError))]
    /\ nCompleted' = nCompleted + 1
    /\ UNCHANGED <<initVars, wire, submitted, recorded, telemetry, nStarted>>

\* --------------------------------------------------------- specifications
\* Spec: init, then one caller making up to MaxCalls calls of Do in turn.
SeqCall ==
    /\ frame[1].pc \in {"idle", "done"}
    /\ nStarted < MaxCalls
    /\ Call(1, SeqInputs)

Next ==
    \/ InitRegisterLatency
    \/ InitRegisterCounter
    \/ SeqCall
    \/ Cancel(1)
    \/ ClientDo(1, SeqCodes)
    \/ Record(1)
    \/ Return(1)

Spec == Init /\ [][Next]_vars

\* SpecConc: init, then every goroutine makes one call of Do, the calls
\* interleaved statement by statement.
ConcCall(p) ==
    /\ frame[p].pc = "idle"
    /\ Call(p, ConcInputs(p))

NextConc ==
    \/ InitRegisterLatency
    \/ InitRegisterCounter
    \/ \E p \in Procs : ConcCall(p)
    \/ \E p \in Procs : Cancel(p)
    \/ \E p \in Procs : ClientDo(p, ConcCodes(p))
    \/ \E p \in Procs : Record(p)
    \/ \E p \in Procs : Return(p)

SpecConc == Init /\ [][NextConc]_vars

\* SpecClassify: one call whose client.Do has just returned a response with
\* any status code of the explored range; the rest of Do runs on it.
ClassifyCodes == (0 - CodeSlack) .. (599 + CodeSlack)

InitClassify ==
    /\ registry = {LatencyView, CounterView}
    /\ initPC = "done"
    /\ regCalls = [latency |-> 1, counter |-> 1]
    /\ regErrs = [latency |-> Nil, counter |-> Nil]
    /\ \E c \in ClassifyCodes :
          /\ frame = [p \in Procs |->
                IF p = 1
                THEN [IdleFrame EXCEPT
                        !.pc = "record",
                        !.req = [Method |-> "GET", ctx |-> NoCtx],
                        !.apiName = "search", !.versionName = "v3",
                        !.response = Response(c), !.timeTaken = 1999999]
                ELSE IdleFrame]
          /\ wire = [p \in Procs |->
                IF p = 1 THEN [response |-> Response(c), err |-> Nil] ELSE NoWire]
    /\ returned = [p \in Procs |-> <<>>]
    /\ submitted = [p \in Procs |-> <<>>]
    /\ recorded = [p \in Procs |-> <<>>]
    /\ telemetry = [latencySubmitted |-> 0, countSubmitted |-> 0,
                    latencyRows |-> 0, countRows |-> 0]
    /\ nStarted = 1
    /\ nCompleted = 0

NextClassify == Record(1) \/ Return(1)

SpecClassify == InitClassify /\ [][NextClassify]_vars

\* ------------------------------------------------------------ properties
\* The value the mutators mus insert for key k.
TagValue(mus, k) ==
    LET i == CHOOSE j \in 1 .. Len(mus) : mus[j].key = k IN mus[i].value

\* Goroutine p's call has made its recording step.
HasRecorded(p) == frame[p].pc \in {"return", "done"}

\* Both views of the package are registered / neither is.
BothRegistered == LatencyView \in registry /\ CounterView \in registry
NoneRegistered == LatencyView \notin registry /\ CounterView \notin registry

\* Every tag value of goroutine p's call passes tag.checkValue (the derived
\* status code and class always do).
ValidTagValues(p) ==
    /\ checkValue(frame[p].req.Method)
    /\ checkValue(frame[p].apiName)
    /\ checkValue(frame[p].versionName)

\* The status class by the hundreds digit, written independently of the
\* code's chain of comparisons.
ExpectedClass(c) ==
    IF c \in 100 .. 599 THEN Digit[(c \div 100) + 1] \o "xx" ELSE "UNKNOWN"

\* The decimal strings of the status codes Spec explores, written out.
DecimalString ==
    (200 :> "200") @@ (302 :> "302") @@ (404 :> "404") @@ (500 :> "500")
    @@ (600 :> "600")

\* C1: exactly one latency and one count observation are submitted per call
\* of Do, whatever its outcome: whenever no call is in progress, the totals
\* of latency and of count observations submitted both equal the number of
\* completed calls, and a completed call made exactly one submission holding
\* one measurement of each measure.
C1_OneSubmissionPerCall ==
    /\ frame[1].pc \in {"idle", "done"} =>
          /\ telemetry.latencySubmitted = nCompleted
          /\ telemetry.countSubmitted = nCompleted
    /\ frame[1].pc = "done" =>
          /\ Len(submitted[1]) = 1
          /\ CountOf(submitted[1], outboundHTTPLatency.name) = 1
          /\ CountOf(submitted[1], outboundHTTPRequests.name) = 1

\* Two calls completed, the last one failed in the transport with its
\* context cancelled, and both were submitted.
C1_Witness ==
    /\ nCompleted >= 2
    /\ frame[1].pc = "done"
    /\ wire[1].response.isNil
    /\ frame[1].req.ctx.cancelled
    /\ telemetry.latencySubmitted = nCompleted
    /\ telemetry.countSubmitted = nCompleted

\* C2: when client.Do produced no response, the call is still recorded and
\* the submitted status code tag is "500" and the status class tag "5xx",
\* as are those of every row the views received, although httpError is
\* non-nil.
C2_SentinelOnNoResponse ==
    (HasRecorded(1) /\ wire[1].response.isNil) =>
        /\ frame[1].httpError # Nil
        /\ Len(submitted[1]) = 1
        /\ TagValue(submitted[1][1].mutators, StatusTag) = "500"
        /\ TagValue(submitted[1][1].mutators, StatusClassTag) = "5xx"
        /\ \A i \in 1 .. Len(recorded[1]) :
              /\ <<StatusTag, "500">> \in recorded[1][i].tags
              /\ <<StatusClassTag, "5xx">> \in recorded[1][i].tags

\* A call whose transport failed without a response, recorded in both views.
C2_Witness ==
    /\ frame[1].pc = "done"
    /\ wire[1].response.isNil
    /\ wire[1].err = "connection refused"
    /\ Len(recorded[1]) = 2
    /\ <<StatusTag, "500">> \in recorded[1][1].tags

\* C3: for every status code the derived class is "1xx" .. "5xx" for the
\* codes 100 .. 599, by their hundreds digit, and "UNKNOWN" for every other
\* code (below 100, 600 and above, zero, negative).
C3_StatusClassByRange ==
    HasRecorded(1) =>
        /\ Len(submitted[1]) = 1
        /\ TagValue(submitted[1][1].mutators, StatusClassTag)
              = ExpectedClass(wire[1].response.StatusCode)
        /\ TagValue(submitted[1][1].mutators, StatusClassTag)
              \in {"1xx", "2xx", "3xx", "4xx", "5xx", "UNKNOWN"}

\* A response with the last code of the 5xx range, and classes on both
\* sides of the range seen: the code 599 classified "5xx".
C3_Witness ==
    /\ frame[1].pc = "done"
    /\ wire[1].response.StatusCode = 599
    /\ TagValue(submitted[1][1].mutators, StatusClassTag) = "5xx"

\* C4: the response and httpError Do returns are the values client.Do
\* produced, whatever metricError is.
C4_ReturnsTransportResult ==
    frame[1].pc = "done" =>
        /\ Len(returned[1]) = 1
        /\ returned[1][1].response = wire[1].response
        /\ returned[1][1].httpError = wire[1].err
        /\ returned[1][1].metricError = frame[1].metricError

\* A successful call whose recording failed: response and nil httpError are
\* returned with a non-nil metricError.
C4_Witness ==
    /\ frame[1].pc = "done"
    /\ returned[1][1].metricError # Nil
    /\ returned[1][1].httpError = Nil
    /\ ~returned[1][1].response.isNil

\* The other three combinations of (httpError, metricError) are returned too.
C4_BothErrors ==
    /\ frame[1].pc = "done"
    /\ returned[1][1].metricError # Nil
    /\ returned[1][1].httpError # Nil
C4_OnlyHTTPError ==
    /\ frame[1].pc = "done"
    /\ returned[1][1].metricError = Nil
    /\ returned[1][1].httpError # Nil
C4_NoError ==
    /\ frame[1].pc = "done"
    /\ returned[1][1].metricError = Nil
    /\ returned[1][1].httpError = Nil

C6_RegistrationFaultIsFatal ==
    (regErrs.latency # Nil \/ regErrs.counter # Nil) => nStarted = 0

\* C7: with calls of Do running at the same time, every call that has made
\* its recording step made exactly one submission, carrying its own method,
\* API name, version, status code and class and no other call's, as does
\* every row it added to the views; and no submission or row is lost from
\* the process-wide totals.
C7_NoCrossContamination ==
    /\ \A p \in Procs : HasRecorded(p) =>
          /\ Len(submitted[p]) = 1
          /\ LET mus == submitted[p][1].mutators
                 own == {<<MethodTag, frame[p].req.Method>>,
                         <<APINameTag, frame[p].apiName>>,
                         <<VersionTag, frame[p].versionName>>,
                         <<StatusTag, Itoa(StatusCodeOf(wire[p].response))>>,
                         <<StatusClassTag,
                           ExpectedClass(StatusCodeOf(wire[p].response))>>}
             IN  /\ {<<mus[i].key, mus[i].value>> : i \in 1 .. Len(mus)} = own
                 /\ \A i \in 1 .. Len(recorded[p]) : recorded[p][i].tags = own
                 /\ \A q \in Procs \ {p} :
                       frame[q].pc # "idle" =>
                          /\ TagValue(mus, APINameTag) # frame[q].apiName
                          /\ TagValue(mus, VersionTag) # frame[q].versionName
    /\ LET done == {p \in Procs : HasRecorded(p)}
           rowsIn(n) == {<<p, i>> \in done \X (1 .. 2) :
                            i <= Len(recorded[p]) /\ recorded[p][i].view = n}
       IN  /\ telemetry.latencySubmitted = Cardinality(done)
           /\ telemetry.countSubmitted = Cardinality(done)
           /\ telemetry.latencyRows = Cardinality(rowsIn(LatencyView.Name))
           /\ telemetry.countRows = Cardinality(rowsIn(CounterView.Name))

\* Two calls in flight at once, both past their recording step and not yet
\* returned, both recorded in both views.
C7_Witness ==
    /\ frame[1].pc = "return"
    /\ frame[2].pc = "return"
    /\ Len(recorded[1]) = 2
    /\ Len(recorded[2]) = 2

C9_Original ==
    (HasRecorded(1) /\ frame[1].req.ctx.cancelled) =>
        /\ submitted[1] = <<>>
        /\ recorded[1] = <<>>
        /\ frame[1].metricError # Nil

\* C9, amended: a context cancelled before the measurement is submitted
\* does not abort the recording step: the latency and count observations are
\* submitted all the same, both are recorded when the views are registered
\* and the tag values valid, and metricError is non-nil only if a tag value
\* is rejected.
C9_CancelDoesNotAbortRecording ==
    (HasRecorded(1) /\ frame[1].req.ctx.cancelled) =>
        /\ Len(submitted[1]) = 1
        /\ submitted[1][1].ctx.cancelled
        /\ Len(submitted[1][1].measurements) = 2
        /\ frame[1].metricError # Nil => ~ValidTagValues(1)
        /\ (BothRegistered /\ ValidTagValues(1)) => Len(recorded[1]) = 2

\* A call whose context was cancelled before client.Do returned, recorded
\* in both views with a nil metricError.
C9_Witness ==
    /\ frame[1].pc = "done"
    /\ frame[1].req.ctx.cancelled
    /\ wire[1].err = "context canceled"
    /\ returned[1][1].metricError = Nil
    /\ Len(recorded[1]) = 2

\* C10: each register function is called exactly once, by init, before the
\* recording step of any call of Do, and never again: no call of Do starts
\* before init is done, once init is done each has been called once, and
\* none is ever called twice.
C10_RegistrationPrecedesRecording ==
    /\ regCalls.latency <= 1
    /\ regCalls.counter <= 1
    /\ initPC = "done" => (regCalls.latency = 1 /\ regCalls.counter = 1)
    /\ nStarted > 0 => initPC = "done"
    /\ (\E p \in Procs : frame[p].pc # "idle") =>
          (regCalls.latency = 1 /\ regCalls.counter = 1)

\* A second call has been recorded in both views, registered once each.
C10_Witness ==
    /\ nCompleted >= 2
    /\ telemetry.latencyRows >= 2
    /\ telemetry.countRows >= 2
    /\ BothRegistered
    /\ regCalls = [latency |-> 1, counter |-> 1]

====
